---- MODULE Spec2Model ----
(***************************************************************************)
(* State-machine model of clickhouse/columns/string.cpp: the fixed-width   *)
(* string column (ColumnFixedString) and the variable-width string column  *)
(* (ColumnString) with its arena of non-relocating blocks.                 *)
(*                                                                         *)
(* Two column objects, A and B, live side by side.  Every public operation *)
(* of either class is one action.  Memory is explicit: char arrays and     *)
(* owned strings live in `heap` under an allocation id, and a string_view  *)
(* is a (buffer, offset, length) triple, so that a view can dangle or      *)
(* reach past the end of its array.  size_t arithmetic is done modulo      *)
(* 2^SizeBits.                                                             *)
(*                                                                         *)
(* Six specifications share the actions: SpecAppend (appends only),        *)
(* SpecArena (one ColumnString and its blocks), SpecLoad (one ColumnString  *)
(* filled and loaded), SpecBuild (ColumnStrings built from lists and then  *)
(* sized), SpecFixed (two ColumnFixedStrings under every operation) and    *)
(* Spec (two columns of one kind saving, loading, slicing, swapping and    *)
(* appending to one another).                                              *)
(***************************************************************************)
EXTENDS Integers, Sequences, FiniteSets, TLC

\* ------------------------------------------------------------------ bounds

\* Width of size_t in bits (the arithmetic of the code is done modulo 2^SizeBits).
SizeBits == 16
\* Longest items_ vector the model lets a column grow to.
MaxItems == 2
\* Longest items_ vector that Append(column) from another column may leave.
MaxJoined == 3
\* Number of heap allocations that can be alive at once.
MaxBufs == 3
\* Largest value size estimation a column is constructed with.
MaxEst == 2
\* An estimate handed to SetEstimatedValueSize, large enough for 32 such
\* values to exceed DEFAULT_BLOCK_SIZE.
BigEst == 200
\* Largest argument of Reserve.
MaxReserve == 2
\* Longest list a column is constructed from.
MaxInitLen == 1
\* Longest list of SpecBuild, where only the constructors from lists run.
MaxBuildLen == 2
\* Largest (non-overflowing) row count handed to LoadBody.
MaxRows == 2
\* Number of bytes an input stream may be cut short by.
MaxTrunc == 1
\* Capacity of a default-constructed std::string (implementation-defined).
StdStringInitCap == 15

\* ------------------------------------------------------- program constants

DEFAULT_BLOCK_SIZE == 4096
\* ColumnString::DEFAULT_ESTIMATION (declared in string.h).
DEFAULT_ESTIMATION == 1
estimated_number_of_items_per_block == 32
SizeofStringView == 16
SizeofBlock == 24
SizeofString == 32
\* Width of the length prefix read by WireFormat::ReadUInt64.
UInt64Bytes == 8

\* ------------------------------------------------------------ size_t maths

SizeMod == 2 ^ SizeBits
Wrap(x) == x % SizeMod
Min(a, b) == IF a < b THEN a ELSE b
Max(a, b) == IF a > b THEN a ELSE b
\* new CharT[n], std::string and std::vector growth throw (bad_alloc or
\* length_error) beyond what the address space can hold.
MaxAlloc == SizeMod \div 8
AllocFails(n) == n > MaxAlloc

\* ------------------------------------------------------------------ inputs

Cols == {"A", "B"}
\* Strings handed to the append operations: empty, one byte, and two bytes
\* with a zero byte inside.
Strs == {<< >>, <<1>>, <<0, 1>>}
\* The caller's memory that AppendNoManagedLifetime borrows from; it outlives
\* both columns.
CallerBuf == 0
CallerMem == <<1, 0, 1>>
EstSet == 0 .. MaxEst
\* The estimates handed to SetEstimatedValueSize.
SetEsts == {0, BigEst}
FixedSizes == {1, 3}
\* An element size beyond the capacity a std::string starts with.
WideSizes == {16}
\* A count so large that three times it wraps around size_t.
HugeCount == SizeMod \div 3 + 1
ReserveSet == (0 .. MaxReserve) \cup {SizeMod - 1}
RowSet == (0 .. MaxRows) \cup {HugeCount}
SliceBegins == 0 .. MaxItems
SliceLens == (0 .. MaxItems) \cup {HugeCount, SizeMod - 1}
RECURSIVE SeqsUpTo(_, _)
SeqsUpTo(S, n) ==
    IF n = 0 THEN {<< >>}
    ELSE LET shorter == SeqsUpTo(S, n - 1)
         IN shorter \cup {Append(q, x) : q \in shorter, x \in S}
InitLists == SeqsUpTo(Strs, MaxInitLen)
BuildLists == SeqsUpTo(Strs, MaxBuildLen)

\* -------------------------------------------------------------------- heap

BufIds == 1 .. MaxBufs
Free == [live |-> FALSE, cap |-> 0, bytes |-> << >>]
FreeIds(h) == {i \in BufIds : ~h[i].live}
NewId(h) == CHOOSE i \in FreeIds(h) : \A j \in FreeIds(h) : i <= j
Release(h, ids) == [i \in BufIds |-> IF i \in ids THEN Free ELSE h[i]]
Garbage == <<-1>>
\* What reading through a string_view yields.
Deref(h, v) ==
    IF v.buf = CallerBuf
    THEN SubSeq(CallerMem, v.off + 1, v.off + v.len)
    ELSE IF h[v.buf].live /\ v.off + v.len <= Len(h[v.buf].bytes)
         THEN SubSeq(h[v.buf].bytes, v.off + 1, v.off + v.len)
         ELSE Garbage
\* std::vector growth on emplace_back, and reserve.
VecGrow(cap, size) == IF size < cap THEN cap ELSE IF cap = 0 THEN 1 ELSE 2 * cap
VecReserve(cap, n) == IF n > cap THEN n ELSE cap
\* std::string growth when `need` bytes must fit.
StrGrow(cap, need) == IF need <= cap THEN cap ELSE Max(need, 2 * cap)
\* Capacity of a std::string constructed from n bytes, as substr returns it:
\* the capacity it starts with, or exactly n when that is more.
StrExact(n) == IF n <= StdStringInitCap THEN StdStringInitCap ELSE n

Range(q) == {q[i] : i \in 1 .. Len(q)}

\* ------------------------------------------------- anonymous namespace (1)

RECURSIVE SumRange(_, _, _)
SumRange(sizes, lo, hi) ==
    IF lo > hi THEN 0 ELSE Wrap(sizes[lo] + SumRange(sizes, lo + 1, hi))
\* ComputeTotalSize(strings, begin, len); `sizes` are the elements' size().
ComputeTotalSize(sizes, begin, len) ==
    IF begin < Len(sizes)
    THEN LET n == Min(len, Len(sizes) - begin)
         IN SumRange(sizes, begin + 1, begin + n)
    ELSE 0
RoundUp(numToRound, multiple) ==
    Wrap((Wrap(numToRound + (multiple - 1)) \div multiple) * multiple)
\* A ComputeValueSizeEstimation that rounds the quotient down.
ComputeValueSizeEstimation_Floor(total_size, number_of_items) ==
    LET n == IF number_of_items # 0 THEN number_of_items ELSE 1
        estimation == total_size \div n
    IN IF estimation = 0 THEN DEFAULT_ESTIMATION ELSE estimation
\* std::ceil of the quotient taken in double, which is exact for sizes
\* below 2^53.
ComputeValueSizeEstimation(total_size, number_of_items) ==
    LET n == IF number_of_items # 0 THEN number_of_items ELSE 1
        estimation == (total_size + n - 1) \div n
    IN IF estimation = 0 THEN DEFAULT_ESTIMATION ELSE estimation
EstimateNextBlockSize(value_size_estimation) ==
    Max(DEFAULT_BLOCK_SIZE,
        Wrap(value_size_estimation * estimated_number_of_items_per_block))

\* ------------------------------------------------------ ColumnString::Block

\* Block(starting_capacity): size 0, a fresh char array of `capacity` bytes.
Block(h, starting_capacity) ==
    LET id == NewId(h)
    IN [block |-> [size |-> 0, capacity |-> starting_capacity, data_ |-> id],
        heap |-> [h EXCEPT ![id] = [live |-> TRUE, cap |-> starting_capacity,
                                    bytes |-> << >>]]]
GetAvailable(b) == b.capacity - b.size
\* A Block::AppendUnsafe that copies to the start of the array instead of its
\* unused tail.
Block_AppendUnsafe_AtStart(b, h, str) ==
    [block |-> [b EXCEPT !.size = b.size + Len(str)],
     heap |-> [h EXCEPT ![b.data_].bytes =
                  str \o SubSeq(@, Len(str) + 1, Max(b.size, Len(str)))],
     view |-> [buf |-> b.data_, off |-> 0, len |-> Len(str)]]
\* memcpy at data_[size], size += str.size(), view over the copied region.
\* No check against capacity: the caller has to have made it.
Block_AppendUnsafe(b, h, str) ==
    [block |-> [b EXCEPT !.size = b.size + Len(str)],
     heap |-> [h EXCEPT ![b.data_].bytes = SubSeq(@, 1, b.size) \o str],
     view |-> [buf |-> b.data_, off |-> b.size, len |-> Len(str)]]
\* A ConsumeTailAsStringViewUnsafe that hands out the view and leaves the
\* block's size where it was.
ConsumeTailAsStringViewUnsafe_NoAdvance(b, h, payload) ==
    [block |-> b,
     heap |-> [h EXCEPT ![b.data_].bytes = SubSeq(@, 1, b.size) \o payload],
     view |-> [buf |-> b.data_, off |-> b.size, len |-> Len(payload)]]
\* GetCurrentWritePos, the direct write of ReadBytes, then
\* ConsumeTailAsStringViewUnsafe(len).
ConsumeTailAsStringViewUnsafe(b, h, payload) ==
    [block |-> [b EXCEPT !.size = b.size + Len(payload)],
     heap |-> [h EXCEPT ![b.data_].bytes = SubSeq(@, 1, b.size) \o payload],
     view |-> [buf |-> b.data_, off |-> b.size, len |-> Len(payload)]]

\* ------------------------------------------------------------- ColumnString

Last(q) == q[Len(q)]
ItemSizes(o) == [i \in 1 .. Len(o.items_) |-> o.items_[i].len]
BlockIds(o) == {o.blocks_[i].data_ : i \in 1 .. Len(o.blocks_)}
OwnedIds(o) == Range(o.append_data_)

\* ColumnString(EstimatedValueSize)
ColumnString_ctor(value_size_estimation) ==
    [type |-> "String",
     items_ |-> << >>, items_capacity |-> 0,
     blocks_ |-> << >>, blocks_capacity |-> 0,
     append_data_ |-> << >>,
     value_size_estimation_ |-> value_size_estimation,
     next_block_size_ |-> DEFAULT_BLOCK_SIZE]

\* blocks_.emplace_back(capacity)
EmplaceBlock(o, h, capacity) ==
    LET nb == Block(h, capacity)
    IN [obj |-> [o EXCEPT !.blocks_ = Append(@, nb.block),
                          !.blocks_capacity = VecGrow(@, Len(o.blocks_))],
        heap |-> nb.heap]

\* items_.emplace_back(view)
EmplaceItem(o, view) ==
    [o EXCEPT !.items_ = Append(@, view),
              !.items_capacity = VecGrow(@, Len(o.items_))]

\* A ColumnString::AppendUnsafe that puts the new view at the front of items_.
ColumnString_AppendUnsafe_Front(o, h, str) ==
    LET n == Len(o.blocks_)
        r == Block_AppendUnsafe(o.blocks_[n], h, str)
    IN [obj |-> [o EXCEPT !.blocks_[n] = r.block,
                          !.items_ = <<r.view>> \o @,
                          !.items_capacity = VecGrow(@, Len(o.items_))],
        heap |-> r.heap]

\* ColumnString::AppendUnsafe(str): into blocks_.back(), unchecked.
ColumnString_AppendUnsafe(o, h, str) ==
    LET n == Len(o.blocks_)
        r == Block_AppendUnsafe(o.blocks_[n], h, str)
    IN [obj |-> EmplaceItem([o EXCEPT !.blocks_[n] = r.block], r.view),
        heap |-> r.heap]

\* ColumnString(size_t element_count, EstimatedValueSize)
ColumnString_ctor_sized(h, element_count, value_size_estimation) ==
    LET o == [ColumnString_ctor(value_size_estimation)
                  EXCEPT !.items_capacity = element_count]
    IN EmplaceBlock(o, h,
           Max(DEFAULT_BLOCK_SIZE,
               RoundUp(Wrap(element_count * value_size_estimation),
                       DEFAULT_BLOCK_SIZE)))

RECURSIVE AppendUnsafeAll(_, _, _)
AppendUnsafeAll(o, h, data) ==
    IF data = << >> THEN [obj |-> o, heap |-> h]
    ELSE LET r == ColumnString_AppendUnsafe(o, h, Head(data))
         IN AppendUnsafeAll(r.obj, r.heap, Tail(data))

\* ColumnString(const std::vector<std::string>& data)
ColumnString_ctor_copy(h, data) ==
    LET total_size == ComputeTotalSize([i \in 1 .. Len(data) |-> Len(data[i])],
                                       0, SizeMod - 1)
        o == [ColumnString_ctor(DEFAULT_ESTIMATION)
                  EXCEPT !.items_capacity = Len(data)]
        e == EmplaceBlock(o, h, total_size)
        r == AppendUnsafeAll(e.obj, e.heap, data)
    IN [obj |-> [r.obj EXCEPT !.value_size_estimation_ =
                     ComputeValueSizeEstimation(total_size, Len(data))],
        heap |-> r.heap]

\* append_data_.emplace_back(std::move(s)); view over the owned string.
StealString(o, h, str) ==
    LET id == NewId(h)
    IN [obj |-> EmplaceItem([o EXCEPT !.append_data_ = Append(@, id)],
                            [buf |-> id, off |-> 0, len |-> Len(str)]),
        heap |-> [h EXCEPT ![id] = [live |-> TRUE, cap |-> Len(str),
                                    bytes |-> str]]]

RECURSIVE StealAll(_, _, _)
StealAll(o, h, data) ==
    IF data = << >> THEN [obj |-> o, heap |-> h]
    ELSE LET r == StealString(o, h, Head(data))
         IN StealAll(r.obj, r.heap, Tail(data))

\* ColumnString(std::vector<std::string>&& data)
ColumnString_ctor_move(h, data) ==
    LET o == [ColumnString_ctor(DEFAULT_ESTIMATION)
                  EXCEPT !.items_capacity = Len(data)]
        r == StealAll(o, h, data)
    IN [obj |-> [r.obj EXCEPT !.value_size_estimation_ =
                     ComputeValueSizeEstimation(
                         ComputeTotalSize(ItemSizes(r.obj), 0, SizeMod - 1),
                         Len(r.obj.items_))],
        heap |-> r.heap]

\* The test of Append(std::string_view) and Append(ColumnRef) for a new block.
LacksRoom(o, n) ==
    o.blocks_ = << >> \/ GetAvailable(Last(o.blocks_)) < n

\* ColumnString::Append(std::string_view str)
ColumnString_Append(o, h, str) ==
    IF LacksRoom(o, Len(str))
    THEN LET capacity == Max(o.next_block_size_, Len(str))
         IN IF AllocFails(capacity)
            THEN [obj |-> o, heap |-> h, ret |-> "bad_alloc"]
            ELSE LET e == EmplaceBlock(o, h, capacity)
                     o2 == [e.obj EXCEPT !.next_block_size_ =
                               EstimateNextBlockSize(o.value_size_estimation_)]
                     r == ColumnString_AppendUnsafe(o2, e.heap, str)
                 IN [obj |-> r.obj, heap |-> r.heap, ret |-> "ok"]
    ELSE LET r == ColumnString_AppendUnsafe(o, h, str)
         IN [obj |-> r.obj, heap |-> r.heap, ret |-> "ok"]

\* ColumnString::Append(std::string&& steal_value)
ColumnString_AppendMove(o, h, str) == StealString(o, h, str)

\* ColumnString::AppendNoManagedLifetime(str): str is a view of the caller's
\* memory.
CallerView(str) ==
    LET off == CHOOSE k \in 0 .. Len(CallerMem) :
                   /\ k + Len(str) <= Len(CallerMem)
                   /\ SubSeq(CallerMem, k + 1, k + Len(str)) = str
    IN [buf |-> CallerBuf, off |-> off, len |-> Len(str)]
ColumnString_AppendNoManagedLifetime(o, str) == EmplaceItem(o, CallerView(str))

\* ColumnString::Size, ColumnString::At
ColumnString_Size(o) == Len(o.items_)
ColumnString_At(o, h, n) ==
    IF n < Len(o.items_) THEN Deref(h, o.items_[n + 1]) ELSE "out_of_range"

\* ColumnString::Reserve(new_cap)
ColumnString_Reserve(o, h, new_cap) ==
    IF AllocFails(new_cap * SizeofStringView)
    THEN [obj |-> o, heap |-> h, ret |-> "length_error"]
    ELSE LET o1 == [o EXCEPT !.items_capacity = VecReserve(@, new_cap)]
         IN IF o.blocks_ = << >>
               \/ GetAvailable(Last(o.blocks_)) < o.value_size_estimation_
            THEN LET capacity == Wrap(new_cap * o.value_size_estimation_)
                 IN IF AllocFails(capacity)
                    THEN [obj |-> o1, heap |-> h, ret |-> "bad_alloc"]
                    ELSE LET e == EmplaceBlock(o1, h, capacity)
                         IN [obj |-> e.obj, heap |-> e.heap, ret |-> "ok"]
            ELSE LET estimated_items_in_next_block ==
                         IF o.value_size_estimation_ # 0
                         THEN Wrap(new_cap - GetAvailable(Last(o.blocks_))
                                                 \div o.value_size_estimation_)
                         ELSE new_cap
                 IN [obj |-> [o1 EXCEPT !.next_block_size_ =
                                 Max(DEFAULT_BLOCK_SIZE,
                                     Wrap(estimated_items_in_next_block
                                          * o.value_size_estimation_))],
                     heap |-> h, ret |-> "ok"]

\* ColumnString::SetEstimatedValueSize(value_size_estimation)
ColumnString_SetEstimatedValueSize(o, value_size_estimation) ==
    [o EXCEPT !.value_size_estimation_ = value_size_estimation]

\* ColumnString::Clear()
ColumnString_Clear(o, h) ==
    [obj |-> [o EXCEPT !.items_ = << >>, !.blocks_ = << >>,
                       !.append_data_ = << >>],
     heap |-> Release(h, BlockIds(o) \cup OwnedIds(o))]

\* A ColumnString::MemoryUsage that counts the unused bytes of the blocks
\* instead of their capacity.
ColumnString_MemoryUsage_Unused(o, h) ==
    LET owned == [i \in 1 .. Len(o.append_data_) |-> Len(h[o.append_data_[i]].bytes)]
        unused == [i \in 1 .. Len(o.blocks_) |-> GetAvailable(o.blocks_[i])]
    IN Wrap(ComputeTotalSize(owned, 0, SizeMod - 1)
            + SizeofString * Len(o.append_data_)
            + SizeofStringView * o.items_capacity
            + SizeofBlock * o.blocks_capacity
            + SumRange(unused, 1, Len(unused)))

\* ColumnString::MemoryUsage()
ColumnString_MemoryUsage(o, h) ==
    LET owned == [i \in 1 .. Len(o.append_data_) |-> Len(h[o.append_data_[i]].bytes)]
        capacities == [i \in 1 .. Len(o.blocks_) |-> o.blocks_[i].capacity]
    IN Wrap(ComputeTotalSize(owned, 0, SizeMod - 1)
            + SizeofString * Len(o.append_data_)
            + SizeofStringView * o.items_capacity
            + SizeofBlock * o.blocks_capacity
            + SumRange(capacities, 1, Len(capacities)))

\* ColumnString::CloneEmpty()
ColumnString_CloneEmpty(o) == ColumnString_ctor(o.value_size_estimation_)

RECURSIVE SliceAppend(_, _, _, _, _)
SliceAppend(src, r, h, i, end) ==
    IF i >= end \/ r.ret # "ok" THEN r
    ELSE LET a == ColumnString_Append(r.obj, r.heap, Deref(h, src.items_[i + 1]))
         IN SliceAppend(src, a, h, i + 1, end)

\* ColumnString::Slice(begin, len): the new column and the heap holding it.
ColumnString_Slice(o, h, begin, len) ==
    IF begin >= Len(o.items_)
    THEN [obj |-> ColumnString_CloneEmpty(o), heap |-> h, ret |-> "ok"]
    ELSE LET n == Min(len, Len(o.items_) - begin)
             result == [ColumnString_ctor(o.value_size_estimation_)
                            EXCEPT !.items_capacity = n]
             e == EmplaceBlock(result, h,
                      Max(DEFAULT_BLOCK_SIZE, ComputeTotalSize(ItemSizes(o), begin, n)))
         IN SliceAppend(o, [obj |-> e.obj, heap |-> e.heap, ret |-> "ok"],
                        h, begin, begin + n)

\* --------------------------------------------------------------- WireFormat

RECURSIVE EncodeFixed(_, _)
EncodeFixed(value, width) ==
    IF width = 0 THEN << >>
    ELSE <<value % 256>> \o EncodeFixed(value \div 256, width - 1)
RECURSIVE DecodeFixed(_)
DecodeFixed(bytes) ==
    IF bytes = << >> THEN 0 ELSE Head(bytes) + 256 * DecodeFixed(Tail(bytes))
\* WireFormat::WriteString: the length prefix, then the payload.
WriteString(str) == EncodeFixed(Len(str), UInt64Bytes) \o str
\* WireFormat::ReadUInt64 at position pos of the stream.
ReadUInt64(stream, pos) ==
    IF pos + UInt64Bytes <= Len(stream)
    THEN [ok |-> TRUE, value |-> DecodeFixed(SubSeq(stream, pos + 1, pos + UInt64Bytes)),
          pos |-> pos + UInt64Bytes]
    ELSE [ok |-> FALSE, value |-> 0, pos |-> Len(stream)]
\* WireFormat::ReadBytes: all of len bytes, or what there is and false.
ReadBytes(stream, pos, len) ==
    IF pos + len <= Len(stream)
    THEN [ok |-> TRUE, bytes |-> SubSeq(stream, pos + 1, pos + len), pos |-> pos + len]
    ELSE [ok |-> FALSE, bytes |-> SubSeq(stream, pos + 1, Len(stream)),
          pos |-> Len(stream)]

\* ColumnString::SaveBody: what is written to the output stream.
RECURSIVE SaveItems(_, _, _)
SaveItems(o, h, i) ==
    IF i > Len(o.items_) THEN << >>
    ELSE WriteString(Deref(h, o.items_[i])) \o SaveItems(o, h, i + 1)
\* A ColumnString::SaveBody that leaves out the first element.
ColumnString_SaveBody_SkipFirst(o, h) == SaveItems(o, h, 2)
ColumnString_SaveBody(o, h) == SaveItems(o, h, 1)

\* The loop of ColumnString::LoadBody over new_items and new_blocks.
RECURSIVE LoadRows(_, _, _, _, _, _)
LoadRows(new, h, stream, pos, i, rows) ==
    IF i >= rows THEN [obj |-> new, heap |-> h, ret |-> "true"]
    ELSE LET rl == ReadUInt64(stream, pos)
         IN IF ~rl.ok THEN [obj |-> new, heap |-> h, ret |-> "false"]
            ELSE LET grow == rl.value > GetAvailable(Last(new.blocks_))
                     capacity == Max(DEFAULT_BLOCK_SIZE, rl.value)
                 IN IF grow /\ AllocFails(capacity)
                    THEN [obj |-> new, heap |-> h, ret |-> "bad_alloc"]
                    ELSE LET e == IF grow THEN EmplaceBlock(new, h, capacity)
                                  ELSE [obj |-> new, heap |-> h]
                             rb == ReadBytes(stream, rl.pos, rl.value)
                         IN IF ~rb.ok THEN [obj |-> e.obj, heap |-> e.heap, ret |-> "false"]
                            ELSE LET n == Len(e.obj.blocks_)
                                     c == ConsumeTailAsStringViewUnsafe(
                                              e.obj.blocks_[n], e.heap, rb.bytes)
                                     o2 == [e.obj EXCEPT !.blocks_[n] = c.block,
                                                         !.items_ = Append(@, c.view)]
                                 IN LoadRows(o2, c.heap, stream, rb.pos, i + 1, rows)

\* A ColumnString::LoadBody that, when a read fails, keeps the rows read so
\* far.
ColumnString_LoadBody_Partial(o, h, stream, rows) ==
    IF rows = 0
    THEN [obj |-> [o EXCEPT !.items_ = << >>, !.blocks_ = << >>],
          heap |-> Release(h, BlockIds(o)), ret |-> "true"]
    ELSE IF AllocFails(rows * SizeofStringView)
    THEN [obj |-> o, heap |-> h, ret |-> "length_error"]
    ELSE LET fresh == [ColumnString_ctor(0) EXCEPT !.items_capacity = rows]
             e == EmplaceBlock(fresh, h, DEFAULT_BLOCK_SIZE)
             r == LoadRows(e.obj, e.heap, stream, 0, 0, rows)
         IN [obj |-> [o EXCEPT !.items_ = r.obj.items_,
                               !.items_capacity = r.obj.items_capacity,
                               !.blocks_ = r.obj.blocks_,
                               !.blocks_capacity = r.obj.blocks_capacity],
             heap |-> Release(r.heap, BlockIds(o)), ret |-> r.ret]

\* ColumnString::LoadBody(input, rows)
ColumnString_LoadBody(o, h, stream, rows) ==
    IF rows = 0
    THEN [obj |-> [o EXCEPT !.items_ = << >>, !.blocks_ = << >>],
          heap |-> Release(h, BlockIds(o)), ret |-> "true"]
    ELSE IF AllocFails(rows * SizeofStringView)
    THEN [obj |-> o, heap |-> h, ret |-> "length_error"]
    ELSE LET fresh == [ColumnString_ctor(0) EXCEPT !.items_capacity = rows]
             e == EmplaceBlock(fresh, h, DEFAULT_BLOCK_SIZE)
             r == LoadRows(e.obj, e.heap, stream, 0, 0, rows)
         IN IF r.ret = "true"
            THEN [obj |-> [o EXCEPT !.items_ = r.obj.items_,
                                    !.items_capacity = r.obj.items_capacity,
                                    !.blocks_ = r.obj.blocks_,
                                    !.blocks_capacity = r.obj.blocks_capacity],
                  heap |-> Release(r.heap, BlockIds(o)), ret |-> "true"]
            ELSE [obj |-> o, heap |-> h, ret |-> r.ret]

\* -------------------------------------------------------- ColumnFixedString

\* ColumnFixedString(n)
ColumnFixedString_ctor(n) ==
    [type |-> "FixedString", string_size_ |-> n, data_ |-> << >>,
     data_capacity |-> StdStringInitCap]

Zeroes(n) == [i \in 1 .. n |-> 0]

\* ColumnFixedString::Size()
ColumnFixedString_Size(o) == Len(o.data_) \div o.string_size_

\* ColumnFixedString::Reserve(new_cap)
ColumnFixedString_Reserve(o, new_cap) ==
    LET n == Wrap(o.string_size_ * new_cap)
    IN IF AllocFails(n) THEN [obj |-> o, ret |-> "length_error"]
       ELSE [obj |-> [o EXCEPT !.data_capacity = StrGrow(@, n)], ret |-> "ok"]

\* The zero padding of Append: resize(size + padding_size, char(0)).
Pad(str, string_size) ==
    IF Len(str) < string_size THEN str \o Zeroes(string_size - Len(str)) ELSE str

\* A ColumnFixedString::Append that cuts an oversized string to string_size_
\* bytes instead of rejecting it.
ColumnFixedString_Append_Truncating(o, str) ==
    LET data == o.data_ \o Pad(SubSeq(str, 1, Min(Len(str), o.string_size_)),
                                o.string_size_)
    IN [obj |-> [o EXCEPT !.data_ = data,
                          !.data_capacity = StrGrow(@, Len(data))],
        ret |-> "ok"]

\* ColumnFixedString::Append(std::string_view str)
ColumnFixedString_Append(o, str) ==
    IF Len(str) > o.string_size_
    THEN [obj |-> o, ret |-> "ValidationError"]
    ELSE LET reserved ==
                 IF o.data_capacity - Len(o.data_) < Len(str)
                 THEN StrGrow(o.data_capacity,
                          Wrap((Wrap(Len(o.data_) + o.string_size_)
                                    \div DEFAULT_BLOCK_SIZE + 1) * DEFAULT_BLOCK_SIZE))
                 ELSE o.data_capacity
             data == o.data_ \o Pad(str, o.string_size_)
         IN [obj |-> [o EXCEPT !.data_ = data,
                               !.data_capacity =
                                   StrGrow(StrGrow(reserved, Len(o.data_) + Len(str)),
                                           Len(data))],
             ret |-> "ok"]

\* ColumnFixedString::Clear()
ColumnFixedString_Clear(o) == [o EXCEPT !.data_ = << >>]

\* ColumnFixedString::At(n): data_.at(pos) checks pos alone; the view then
\* spans string_size_ bytes from there.
ColumnFixedString_At(o, n) ==
    LET pos == Wrap(n * o.string_size_)
    IN IF pos >= Len(o.data_) THEN "out_of_range"
       ELSE IF pos + o.string_size_ <= Len(o.data_)
            THEN SubSeq(o.data_, pos + 1, pos + o.string_size_)
            ELSE Garbage

\* The two tests of ColumnFixedString::Append(ColumnRef): the cast of the
\* argument, and the equality of the element sizes.
Appendable(o, col) ==
    col.type = "FixedString" /\ o.string_size_ = col.string_size_

\* A ColumnFixedString::Append(ColumnRef) that empties the destination when
\* the argument is not a column it can take.
ColumnFixedString_AppendColumn_Clearing(o, col) ==
    IF Appendable(o, col)
    THEN [o EXCEPT !.data_ = @ \o col.data_,
                   !.data_capacity = StrGrow(@, Len(o.data_) + Len(col.data_))]
    ELSE [o EXCEPT !.data_ = << >>]

\* ColumnFixedString::Append(ColumnRef column)
ColumnFixedString_AppendColumn(o, col) ==
    IF Appendable(o, col)
    THEN [o EXCEPT !.data_ = @ \o col.data_,
                   !.data_capacity = StrGrow(@, Len(o.data_) + Len(col.data_))]
    ELSE o

\* ColumnFixedString::LoadBody(input, rows)
ColumnFixedString_LoadBody(o, stream, rows) ==
    LET n == Wrap(o.string_size_ * rows)
    IN IF AllocFails(n) THEN [obj |-> o, ret |-> "length_error"]
       ELSE LET resized == IF n <= Len(o.data_) THEN SubSeq(o.data_, 1, n)
                           ELSE o.data_ \o Zeroes(n - Len(o.data_))
                rb == ReadBytes(stream, 0, n)
            IN [obj |-> [o EXCEPT !.data_ = rb.bytes
                                      \o SubSeq(resized, Len(rb.bytes) + 1, n),
                                  !.data_capacity = StrGrow(@, n)],
                ret |-> IF rb.ok THEN "true" ELSE "false"]

\* ColumnFixedString::SaveBody: what is written to the output stream.
ColumnFixedString_SaveBody(o) == o.data_

\* ColumnFixedString::Slice(begin, len): the temporary that substr returns
\* is move-assigned to result->data_, capacity included.
ColumnFixedString_Slice(o, begin, len) ==
    LET result == ColumnFixedString_ctor(o.string_size_)
    IN IF begin < ColumnFixedString_Size(o)
       THEN LET b == Wrap(begin * o.string_size_)
                l == Wrap(len * o.string_size_)
                n == Min(Len(o.data_) - b, l)
            IN [result EXCEPT !.data_ = SubSeq(o.data_, b + 1, b + n),
                              !.data_capacity = StrExact(n)]
       ELSE result

\* ColumnFixedString::MemoryUsage()
ColumnFixedString_MemoryUsage(o) == o.data_capacity

\* -------------------------------------------------------------------- state

VARIABLES
    column,   \* the two column objects
    heap,     \* char arrays of the blocks and owned strings, by allocation id
    pc,       \* idle, inside the loop of ColumnString::Append(ColumnRef), or halted
    last      \* how the last operation ended (and what a Swap started from)

vars == <<column, heap, pc, last>>

Idle == [state |-> "idle", dst |-> "A", src |-> "A", i |-> 0]
Halted == [state |-> "halted", dst |-> "A", src |-> "A", i |-> 0]
NoPre == << >>
Ended(ret) == [ret |-> ret, pre |-> NoPre]
\* What a Swap leaves in `last`: the state it started from.
Before == [column |-> column, heap |-> heap, ret |-> last.ret]
\* What Append(ColumnRef) keeps in `last` while its loop runs: the columns
\* and the heap as the call found them.
Entry == [column |-> column, heap |-> heap]
Running == [ret |-> "running", pre |-> Entry]

IsString(c) == column[c].type = "String"
IsFixed(c) == column[c].type = "FixedString"
Other(c) == CHOOSE d \in Cols : d # c
\* What destroying a column object gives back to the heap.
Destroy(o, h) ==
    IF o.type = "String" THEN Release(h, BlockIds(o) \cup OwnedIds(o)) ELSE h

\* Size() and the elements At(0) .. At(Size() - 1) of a column object.
Size(o, h) ==
    IF o.type = "String" THEN ColumnString_Size(o) ELSE ColumnFixedString_Size(o)
At(o, h, n) ==
    IF o.type = "String" THEN ColumnString_At(o, h, n) ELSE ColumnFixedString_At(o, n)
Contents(o, h) == [i \in 1 .. Size(o, h) |-> At(o, h, i - 1)]
MemoryUsage(o, h) ==
    IF o.type = "String" THEN ColumnString_MemoryUsage(o, h)
    ELSE ColumnFixedString_MemoryUsage(o)
SaveBody(o, h) ==
    IF o.type = "String" THEN ColumnString_SaveBody(o, h)
    ELSE ColumnFixedString_SaveBody(o)

\* ------------------------------------------------------------- construction

EmptyHeap == [i \in BufIds |-> Free]

\* Every way to construct a ColumnString on heap h.
StringColumns(h) ==
    {[obj |-> ColumnString_ctor(est), heap |-> h] : est \in EstSet}
    \cup {ColumnString_ctor_sized(h, n, est) : n \in 0 .. MaxReserve, est \in EstSet}
    \cup {ColumnString_ctor_copy(h, data) : data \in InitLists}
    \cup {ColumnString_ctor_move(h, data) : data \in InitLists}
\* Every way to construct a ColumnFixedString.
FixedColumns(h) ==
    {[obj |-> ColumnFixedString_ctor(n), heap |-> h] : n \in FixedSizes \cup WideSizes}
Constructed(h) == StringColumns(h) \cup FixedColumns(h)

\* The state after constructing column A as a and then column B as b.
Start(a, b) ==
    /\ column = [c \in Cols |-> IF c = "A" THEN a.obj ELSE b.obj]
    /\ heap = b.heap
    /\ pc = Idle
    /\ last = Ended("constructed")

\* ------------------------------------------------------ ColumnString actions

StringReserve(c, new_cap) ==
    /\ pc.state = "idle" /\ IsString(c)
    /\ FreeIds(heap) # {}
    /\ LET r == ColumnString_Reserve(column[c], heap, new_cap)
       IN /\ column' = [column EXCEPT ![c] = r.obj]
          /\ heap' = r.heap
          /\ last' = Ended(r.ret)
    /\ UNCHANGED pc

StringSetEstimatedValueSize(c, value_size_estimation) ==
    /\ pc.state = "idle" /\ IsString(c)
    /\ column' = [column EXCEPT ![c] =
                      ColumnString_SetEstimatedValueSize(@, value_size_estimation)]
    /\ last' = Ended("ok")
    /\ UNCHANGED <<heap, pc>>

StringAppend(c, str) ==
    /\ pc.state = "idle" /\ IsString(c)
    /\ Len(column[c].items_) < MaxItems
    /\ LacksRoom(column[c], Len(str)) => FreeIds(heap) # {}
    /\ LET r == ColumnString_Append(column[c], heap, str)
       IN /\ column' = [column EXCEPT ![c] = r.obj]
          /\ heap' = r.heap
          /\ last' = Ended(r.ret)
    /\ UNCHANGED pc

StringAppendMove(c, str) ==
    /\ pc.state = "idle" /\ IsString(c)
    /\ Len(column[c].items_) < MaxItems
    /\ FreeIds(heap) # {}
    /\ LET r == ColumnString_AppendMove(column[c], heap, str)
       IN /\ column' = [column EXCEPT ![c] = r.obj]
          /\ heap' = r.heap
    /\ last' = Ended("ok")
    /\ UNCHANGED pc

StringAppendNoManagedLifetime(c, str) ==
    /\ pc.state = "idle" /\ IsString(c)
    /\ Len(column[c].items_) < MaxItems
    /\ column' = [column EXCEPT ![c] = ColumnString_AppendNoManagedLifetime(@, str)]
    /\ last' = Ended("ok")
    /\ UNCHANGED <<heap, pc>>

\* ColumnString::Append(ColumnRef column) up to its loop: the cast, the total
\* size and the block that is to take it.
StringAppendColumn(c, src) ==
    /\ pc.state = "idle" /\ IsString(c)
    /\ IF IsString(src)
       THEN LET o == column[c]
                total_size == ComputeTotalSize(ItemSizes(column[src]), 0, SizeMod - 1)
                capacity == Max(o.next_block_size_, total_size)
            IN /\ src # c => Len(o.items_) + Len(column[src].items_) <= MaxJoined
               /\ IF LacksRoom(o, total_size)
                  THEN /\ FreeIds(heap) # {}
                       /\ IF AllocFails(capacity)
                          THEN /\ last' = Ended("bad_alloc")
                               /\ UNCHANGED <<column, heap, pc>>
                          ELSE LET e == EmplaceBlock(o, heap, capacity)
                               IN /\ column' = [column EXCEPT ![c] =
                                        [e.obj EXCEPT !.next_block_size_ =
                                            EstimateNextBlockSize(o.value_size_estimation_)]]
                                  /\ heap' = e.heap
                                  /\ pc' = [state |-> "Append", dst |-> c, src |-> src, i |-> 0]
                                  /\ last' = Running
                  ELSE /\ pc' = [state |-> "Append", dst |-> c, src |-> src, i |-> 0]
                       /\ last' = Running
                       /\ UNCHANGED <<column, heap>>
       ELSE /\ last' = Ended("no-op")
            /\ UNCHANGED <<column, heap, pc>>

\* One pass of `for (i = 0; i < column->Size(); ++i) AppendUnsafe((*col)[i])`
\* whose element fits the block.
StringAppendColumnStep ==
    /\ pc.state = "Append"
    /\ pc.i < ColumnString_Size(column[pc.src])
    /\ LET o == column[pc.dst]
           str == Deref(heap, column[pc.src].items_[pc.i + 1])
       IN /\ Len(str) <= GetAvailable(Last(o.blocks_))
          /\ Len(o.items_) < (IF pc.src = pc.dst THEN MaxItems ELSE MaxJoined)
          /\ LET r == ColumnString_AppendUnsafe(o, heap, str)
             IN /\ column' = [column EXCEPT ![pc.dst] = r.obj]
                /\ heap' = r.heap
    /\ pc' = [pc EXCEPT !.i = @ + 1]
    /\ UNCHANGED last

\* The loop's exit.
StringAppendColumnDone ==
    /\ pc.state = "Append"
    /\ pc.i >= ColumnString_Size(column[pc.src])
    /\ pc' = Idle
    /\ last' = Ended("ok")
    /\ UNCHANGED <<column, heap>>

\* A pass whose element does not fit: AppendUnsafe writes past the end of the
\* block's array.  The write lands in whatever lies behind it ...
StringAppendColumnOverrun ==
    /\ pc.state = "Append"
    /\ pc.i < ColumnString_Size(column[pc.src])
    /\ LET o == column[pc.dst]
           str == Deref(heap, column[pc.src].items_[pc.i + 1])
       IN /\ Len(str) > GetAvailable(Last(o.blocks_))
          /\ LET r == ColumnString_AppendUnsafe(o, heap, str)
             IN /\ column' = [column EXCEPT ![pc.dst] = r.obj]
                /\ heap' = r.heap
    /\ pc' = Halted
    /\ last' = Ended("heap_overflow")

\* ... or the process is killed at the write.
StringAppendColumnCrash ==
    /\ pc.state = "Append"
    /\ pc.i < ColumnString_Size(column[pc.src])
    /\ LET o == column[pc.dst]
           str == Deref(heap, column[pc.src].items_[pc.i + 1])
       IN Len(str) > GetAvailable(Last(o.blocks_))
    /\ pc' = Halted
    /\ last' = Ended("crash")
    /\ UNCHANGED <<column, heap>>

StringClear(c) ==
    /\ pc.state = "idle" /\ IsString(c)
    /\ LET r == ColumnString_Clear(column[c], heap)
       IN /\ column' = [column EXCEPT ![c] = r.obj]
          /\ heap' = r.heap
    /\ last' = Ended("ok")
    /\ UNCHANGED pc

\* The input stream: what SaveBody of column src writes, less `trunc` bytes.
Stream(src, trunc) ==
    LET full == SaveBody(column[src], heap)
    IN SubSeq(full, 1, Len(full) - trunc)

StringLoadBody(c, src, rows, trunc) ==
    /\ pc.state = "idle" /\ IsString(c) /\ IsString(src)
    /\ trunc <= Len(SaveBody(column[src], heap))
    /\ FreeIds(heap) # {}
    /\ LET r == ColumnString_LoadBody(column[c], heap, Stream(src, trunc), rows)
       IN /\ column' = [column EXCEPT ![c] = r.obj]
          /\ heap' = r.heap
          /\ last' = Ended(r.ret)
    /\ UNCHANGED pc

\* r = c.Slice(begin, len): the new column takes the place of the one r held.
StringSlice(c, begin, len) ==
    /\ pc.state = "idle" /\ IsString(c)
    /\ FreeIds(heap) # {}
    /\ LET r == ColumnString_Slice(column[c], heap, begin, len)
       IN /\ column' = [column EXCEPT ![Other(c)] = r.obj]
          /\ heap' = Destroy(column[Other(c)], r.heap)
          /\ last' = Ended(r.ret)
    /\ UNCHANGED pc

\* A swap that copies member f of b to a and leaves b as it was.
SwapField_CopyOnly(cols, f, a, b) == [cols EXCEPT ![a][f] = cols[b][f]]
\* The exchange of a member by swap.
SwapField(cols, f, a, b) ==
    [cols EXCEPT ![a][f] = cols[b][f], ![b][f] = cols[a][f]]

\* ColumnString::Swap(other)
ColumnString_Swap(cols, a, b) ==
    SwapField(SwapField(SwapField(SwapField(SwapField(cols,
        "items_", a, b), "items_capacity", a, b),
        "blocks_", a, b), "blocks_capacity", a, b),
        "append_data_", a, b)

StringSwap(c) ==
    /\ pc.state = "idle" /\ IsString(c)
    /\ IF IsString(Other(c))
       THEN /\ column' = ColumnString_Swap(column, c, Other(c))
            /\ last' = [ret |-> "swapped", pre |-> Before]
       ELSE /\ last' = Ended("bad_cast")
            /\ UNCHANGED column
    /\ UNCHANGED <<heap, pc>>

\* ------------------------------------------------- ColumnFixedString actions

FixedReserve(c, new_cap) ==
    /\ pc.state = "idle" /\ IsFixed(c)
    /\ LET r == ColumnFixedString_Reserve(column[c], new_cap)
       IN /\ column' = [column EXCEPT ![c] = r.obj]
          /\ last' = Ended(r.ret)
    /\ UNCHANGED <<heap, pc>>

FixedAppend(c, str) ==
    /\ pc.state = "idle" /\ IsFixed(c)
    /\ Len(column[c].data_) + column[c].string_size_ <= MaxItems * column[c].string_size_
    /\ LET r == ColumnFixedString_Append(column[c], str)
       IN /\ column' = [column EXCEPT ![c] = r.obj]
          /\ last' = Ended(r.ret)
    /\ UNCHANGED <<heap, pc>>

FixedAppendColumn(c, src) ==
    /\ pc.state = "idle" /\ IsFixed(c)
    /\ IsFixed(src) =>
           Len(column[c].data_) + Len(column[src].data_)
               <= MaxItems * column[c].string_size_
    /\ column' = [column EXCEPT ![c] = ColumnFixedString_AppendColumn(@, column[src])]
    /\ last' = Ended(IF Appendable(column[c], column[src]) THEN "ok" ELSE "no-op")
    /\ UNCHANGED <<heap, pc>>

FixedClear(c) ==
    /\ pc.state = "idle" /\ IsFixed(c)
    /\ column' = [column EXCEPT ![c] = ColumnFixedString_Clear(@)]
    /\ last' = Ended("ok")
    /\ UNCHANGED <<heap, pc>>

FixedLoadBody(c, src, rows, trunc) ==
    /\ pc.state = "idle" /\ IsFixed(c) /\ IsFixed(src)
    /\ trunc <= Len(SaveBody(column[src], heap))
    /\ LET r == ColumnFixedString_LoadBody(column[c], Stream(src, trunc), rows)
       IN /\ column' = [column EXCEPT ![c] = r.obj]
          /\ last' = Ended(r.ret)
    /\ UNCHANGED <<heap, pc>>

\* r = c.Slice(begin, len): the new column takes the place of the one r held.
FixedSlice(c, begin, len) ==
    /\ pc.state = "idle" /\ IsFixed(c)
    /\ column' = [column EXCEPT ![Other(c)] = ColumnFixedString_Slice(column[c], begin, len)]
    /\ heap' = Destroy(column[Other(c)], heap)
    /\ last' = Ended("ok")
    /\ UNCHANGED pc

\* ColumnFixedString::Swap(other)
ColumnFixedString_Swap(cols, a, b) ==
    SwapField(SwapField(SwapField(cols,
        "string_size_", a, b), "data_", a, b), "data_capacity", a, b)

FixedSwap(c) ==
    /\ pc.state = "idle" /\ IsFixed(c)
    /\ IF IsFixed(Other(c))
       THEN /\ column' = ColumnFixedString_Swap(column, c, Other(c))
            /\ last' = [ret |-> "swapped", pre |-> Before]
       ELSE /\ last' = Ended("bad_cast")
            /\ UNCHANGED column
    /\ UNCHANGED <<heap, pc>>

\* ----------------------------------------------------------- specifications

\* The number of elements that c.Append(src) is to leave in column c.
Joined(c, src) ==
    IF IsString(c) /\ IsString(src) /\ src # c
    THEN Len(column[c].items_) + Len(column[src].items_)
    ELSE 0

\* Appends only.  Column A is constructed in any way and takes appends of
\* every mode, with its estimate set anew in between; column B is the
\* argument of Append(column).  Fixed-width columns take appends on both
\* sides, so that B has elements to give.
InitAppend ==
    \E a \in Constructed(EmptyHeap) :
        \E b \in {ColumnString_ctor_copy(a.heap, data) : data \in InitLists}
                 \cup FixedColumns(a.heap) :
            Start(a, b)

NextAppend ==
    \/ \E est \in SetEsts : StringSetEstimatedValueSize("A", est)
    \/ \E str \in Strs : StringAppend("A", str)
    \/ \E str \in Strs : StringAppendMove("A", str)
    \/ \E str \in Strs : StringAppendNoManagedLifetime("A", str)
    \/ \E src \in Cols : Joined("A", src) <= MaxItems /\ StringAppendColumn("A", src)
    \/ StringAppendColumnStep
    \/ StringAppendColumnDone
    \/ \E c \in Cols, str \in Strs : FixedAppend(c, str)
    \/ \E c \in Cols, src \in Cols : FixedAppendColumn(c, src)

SpecAppend == InitAppend /\ [][NextAppend]_vars

\* One ColumnString and its arena.  Column A is constructed in any way, with
\* every estimate of EstSet, and takes the operations that allocate, fill
\* and release blocks, itself as the argument of Append(column) included;
\* column B, built from a one-element list, is the other argument of
\* Append(column) and the other origin of input streams.
InitArena ==
    \E a \in StringColumns(EmptyHeap) :
        Start(a, ColumnString_ctor_copy(a.heap, <<<<0, 1>>>>))

NextArena ==
    \/ \E n \in ReserveSet : StringReserve("A", n)
    \/ \E str \in Strs : StringAppend("A", str)
    \/ \E str \in Strs : StringAppendMove("A", str)
    \/ \E str \in Strs : StringAppendNoManagedLifetime("A", str)
    \/ \E src \in Cols : Joined("A", src) <= MaxItems /\ StringAppendColumn("A", src)
    \/ StringAppendColumnStep
    \/ StringAppendColumnDone
    \/ StringAppendColumnOverrun
    \/ StringAppendColumnCrash
    \/ StringClear("A")
    \/ \E src \in Cols, rows \in RowSet, trunc \in 0 .. MaxTrunc :
           StringLoadBody("A", src, rows, trunc)

SpecArena == InitArena /\ [][NextArena]_vars

\* One ColumnString filled and refilled.  Column A is constructed in any way,
\* has its estimate set anew, takes appends of every mode, is cleared, and
\* is loaded from what it or column B saved, whole or cut short, with every
\* row count.
NextLoad ==
    \/ \E est \in SetEsts : StringSetEstimatedValueSize("A", est)
    \/ \E str \in Strs : StringAppend("A", str)
    \/ \E str \in Strs : StringAppendMove("A", str)
    \/ \E str \in Strs : StringAppendNoManagedLifetime("A", str)
    \/ StringClear("A")
    \/ \E src \in Cols, rows \in RowSet, trunc \in 0 .. MaxTrunc :
           StringLoadBody("A", src, rows, trunc)

SpecLoad == InitArena /\ [][NextLoad]_vars

\* ColumnStrings built from complete lists.  Column A is constructed from a
\* list of up to MaxBuildLen strings, by copying it or by taking ownership of
\* it, and then takes SetEstimatedValueSize, Reserve and appends of every
\* mode; B stands empty.
InitBuild ==
    \E data \in BuildLists :
        \E a \in {ColumnString_ctor_copy(EmptyHeap, data),
                   ColumnString_ctor_move(EmptyHeap, data)} :
            /\ column = [c \in Cols |-> IF c = "A" THEN a.obj
                                        ELSE ColumnString_ctor(DEFAULT_ESTIMATION)]
            /\ heap = a.heap
            /\ pc = Idle
            /\ last = Ended("constructed from list")

NextBuild ==
    \/ \E n \in ReserveSet : StringReserve("A", n)
    \/ \E est \in SetEsts : StringSetEstimatedValueSize("A", est)
    \/ \E str \in Strs : StringAppend("A", str)
    \/ \E str \in Strs : StringAppendMove("A", str)
    \/ \E str \in Strs : StringAppendNoManagedLifetime("A", str)

SpecBuild == InitBuild /\ [][NextBuild]_vars

\* Two ColumnFixedStrings; each takes every operation of the class, with the
\* other as the argument of Append(column) and Swap, as the origin of input
\* streams and as the holder of the column that Slice returns.
InitFixed ==
    \E n \in FixedSizes, m \in FixedSizes :
        Start([obj |-> ColumnFixedString_ctor(n), heap |-> EmptyHeap],
              [obj |-> ColumnFixedString_ctor(m), heap |-> EmptyHeap])

NextFixed ==
    \/ \E c \in Cols, n \in ReserveSet : FixedReserve(c, n)
    \/ \E c \in Cols, str \in Strs : FixedAppend(c, str)
    \/ \E c \in Cols, src \in Cols : FixedAppendColumn(c, src)
    \/ \E c \in Cols : FixedClear(c)
    \/ \E c \in Cols, src \in Cols, rows \in RowSet, trunc \in 0 .. MaxTrunc :
           FixedLoadBody(c, src, rows, trunc)
    \/ \E c \in Cols, begin \in SliceBegins, len \in SliceLens : FixedSlice(c, begin, len)
    \/ \E c \in Cols : FixedSwap(c)

SpecFixed == InitFixed /\ [][NextFixed]_vars

\* Two columns of one kind.  Of two ColumnStrings, A is constructed in any way
\* and built up by appends, under the estimate it was given or under BigEst,
\* while B stands as constructed; then B takes what
\* is saved from A or what a Slice of A returns, and the two are swapped and
\* appended to one another.  Two ColumnFixedStrings take every operation, as
\* in SpecFixed.
Untouched(c) ==
    /\ IsString(c)
    /\ column[c] = ColumnString_ctor(column[c].value_size_estimation_)

Init ==
    \/ \E a \in StringColumns(EmptyHeap) :
           Start(a, [obj |-> ColumnString_ctor(DEFAULT_ESTIMATION), heap |-> a.heap])
    \/ InitFixed

Next ==
    \/ Untouched("B") /\ StringSetEstimatedValueSize("A", BigEst)
    \/ \E str \in Strs : Untouched("B") /\ StringAppend("A", str)
    \/ \E str \in Strs : Untouched("B") /\ StringAppendMove("A", str)
    \/ \E str \in Strs : Untouched("B") /\ StringAppendNoManagedLifetime("A", str)
    \/ Untouched("B") /\ StringClear("A")
    \/ \E rows \in RowSet, trunc \in 0 .. MaxTrunc :
           Untouched("B") /\ StringLoadBody("B", "A", rows, trunc)
    \/ \E begin \in SliceBegins, len \in SliceLens :
           Untouched("B") /\ StringSlice("A", begin, len)
    \/ StringAppendColumn("A", "B")
    \/ StringAppendColumnStep
    \/ StringAppendColumnDone
    \/ StringSwap("A")
    \/ NextFixed

Spec == Init /\ [][Next]_vars

\* --------------------------------------------------------------- properties

\* The elements of column c now, and after the step.
Elements(c) == Contents(column[c], heap)
ElementsAfter(c) == Contents(column'[c], heap')

\* An append of str onto the ColumnString c by one of the three modes.
AppendsString(c, str) ==
    \/ StringAppend(c, str)
    \/ StringAppendMove(c, str)
    \/ StringAppendNoManagedLifetime(c, str)

\* C1: every append of a string onto a ColumnString, by copy, by ownership
\* transfer or by borrowing the caller's memory, leaves each element that was
\* there reading as before and adds the appended string as the new last
\* element; so after any sequence of appends Size() is the number of appends
\* and At(i) is the i-th appended string, however many blocks were allocated.
C1_AppendsReadBack ==
    [][\A str \in Strs :
          AppendsString("A", str) =>
              /\ ElementsAfter("A") = Append(Elements("A"), str)
              /\ Size(column'["A"], heap') = Size(column["A"], heap) + 1]_vars

\* A column whose appends have gone to two blocks, an owned buffer aside.
C1_Witness ==
    /\ IsString("A")
    /\ Len(column["A"].blocks_) = 2
    /\ column["A"].blocks_[2].size > 0
    /\ Elements("A") = <<<<1>>, <<0, 1>>>>
    /\ last.ret = "ok"

\* View v lies inside a block of column object o, or inside one of its owned
\* strings.
InsideBlock(o, h, v) ==
    \E i \in 1 .. Len(o.blocks_) :
        /\ v.buf = o.blocks_[i].data_
        /\ h[v.buf].live
        /\ v.off + v.len <= o.blocks_[i].capacity
InsideOwned(o, h, v) ==
    /\ v.buf \in OwnedIds(o)
    /\ h[v.buf].live
    /\ v.off + v.len <= Len(h[v.buf].bytes)

\* C2: in every reachable state every view in items_ that does not borrow the
\* caller's memory refers to bytes inside a block held in the column's
\* blocks_ or inside a buffer held in its append_data_.
C2_ViewsInsideOwnedStorage ==
    \A c \in Cols :
        IsString(c) =>
            \A i \in 1 .. Len(column[c].items_) :
                LET v == column[c].items_[i]
                IN \/ v.buf = CallerBuf
                   \/ InsideBlock(column[c], heap, v)
                   \/ InsideOwned(column[c], heap, v)

\* C3: in every reachable state every block holds no more bytes than its
\* capacity, and its array is as long as it was made, so no AppendUnsafe was
\* made with more bytes than GetAvailable().
C3_BlocksWithinCapacity ==
    \A c \in Cols :
        IsString(c) =>
            \A i \in 1 .. Len(column[c].blocks_) :
                LET b == column[c].blocks_[i]
                IN /\ b.size <= b.capacity
                   /\ heap[b.data_].live
                   /\ heap[b.data_].cap = b.capacity
                   /\ Len(heap[b.data_].bytes) <= b.capacity

\* C4: in every reachable state the backing buffer of a ColumnFixedString is
\* exactly string_size_ * Size() bytes long, the column a Slice returned
\* included.
C4_DataIsWholeElements ==
    \A c \in Cols :
        IsFixed(c) =>
            Len(column[c].data_)
                = column[c].string_size_ * ColumnFixedString_Size(column[c])

\* C5: an Append of a string no longer than string_size_ onto a
\* ColumnFixedString leaves the stored elements as they were and adds one
\* element of string_size_ bytes: the string followed by zero bytes.
C5_AppendPadsWithZeroes ==
    [][\A c \in Cols, str \in Strs :
          (FixedAppend(c, str) /\ Len(str) <= column[c].string_size_) =>
              ElementsAfter(c) =
                  Append(Elements(c),
                         str \o [i \in 1 .. column[c].string_size_ - Len(str) |-> 0])]_vars

\* C6: an Append of a string longer than string_size_ onto a ColumnFixedString
\* ends with ValidationError and leaves the column as it was: the same Size()
\* and the same elements.
C6_OversizedAppendRejected ==
    [][\A c \in Cols, str \in Strs :
          (FixedAppend(c, str) /\ Len(str) > column[c].string_size_) =>
              /\ last'.ret = "ValidationError"
              /\ Size(column'[c], heap') = Size(column[c], heap)
              /\ ElementsAfter(c) = Elements(c)
              /\ column'[c] = column[c]]_vars

\* An oversized string was rejected while both columns held elements.
C6_Witness ==
    /\ last.ret = "ValidationError"
    /\ \A c \in Cols : IsFixed(c) /\ Size(column[c], heap) >= 1

\* c.Slice(begin, len) by either class.
Slices(c, begin, len) == StringSlice(c, begin, len) \/ FixedSlice(c, begin, len)

\* C8: Slice(b, l) returns a column holding the source's elements b up to
\* min(b + l, Size()), in order, none when b >= Size(), for every b and l,
\* and leaves the source as it was.
C8_SliceIsClampedRange ==
    [][\A c \in Cols, begin \in SliceBegins, len \in SliceLens :
          Slices(c, begin, len) =>
              /\ ElementsAfter(Other(c)) =
                     SubSeq(Elements(c), begin + 1,
                            Min(begin + len, Size(column[c], heap)))
              /\ ElementsAfter(c) = Elements(c)]_vars

\* C10: MemoryUsage() of a column of either kind never decreases while
\* elements are appended by any mode, Append(column) included, and nothing
\* is cleared (every step of SpecAppend is a step of an append).
C10_MemoryUsageNeverDecreases ==
    [][\A c \in Cols :
          MemoryUsage(column'[c], heap') >= MemoryUsage(column[c], heap)]_vars

\* Appends have taken a block, an owned string and a second slot of items_
\* for the variable-width column A, and have made the buffer of the
\* fixed-width column B grow twice.
C10_Witness ==
    /\ IsString("A")
    /\ Size(column["A"], heap) = 2
    /\ column["A"].blocks_ # << >>
    /\ column["A"].append_data_ # << >>
    /\ MemoryUsage(column["A"], heap) > DEFAULT_BLOCK_SIZE + 2 * SizeofStringView
    /\ IsFixed("B")
    /\ Size(column["B"], heap) = 2
    /\ MemoryUsage(column["B"], heap) > 2 * StdStringInitCap

\* c.LoadBody(input, rows) by either class, the input being what src saves
\* less trunc bytes.
Loads(c, src, rows, trunc) ==
    StringLoadBody(c, src, rows, trunc) \/ FixedLoadBody(c, src, rows, trunc)
\* Columns c and d are of one kind, and of one element size if fixed-width.
SameKind(c, d) ==
    /\ column[c].type = column[d].type
    /\ IsFixed(c) => column[c].string_size_ = column[d].string_size_

\* C7: LoadBody into an empty column, from all that SaveBody of a column of
\* the same kind (and element size) wrote and with rows = Size() of that
\* column, returns true and gives the same Size() and the same elements in
\* the same order, for either kind and for 0 rows as well.
C7_SaveLoadRoundTrip ==
    [][\A c \in Cols, src \in Cols :
          (/\ SameKind(c, src)
           /\ Size(column[c], heap) = 0
           /\ Loads(c, src, Size(column[src], heap), 0)) =>
              /\ last'.ret = "true"
              /\ Size(column'[c], heap') = Size(column[src], heap)
              /\ ElementsAfter(c) = Elements(src)]_vars

\* B was loaded from what A saved: two elements, one of them an owned string.
C7_Witness ==
    /\ last.ret = "true"
    /\ IsString("A") /\ IsString("B")
    /\ Size(column["A"], heap) = 2
    /\ column["A"].append_data_ # << >>
    /\ column["B"].append_data_ = << >>
    /\ Len(column["B"].blocks_) = 1
    /\ Elements("B") = Elements("A")

\* c.Swap(other) by either class.
Swaps(c) == StringSwap(c) \/ FixedSwap(c)

\* C9: Swap between two columns of one kind gives each the elements the other
\* had, copying no bytes, and a second Swap right after it gives back the
\* state the first one started from.
C9_SwapExchangesAndRestores ==
    [][\A c \in Cols :
          (column[c].type = column[Other(c)].type /\ Swaps(c)) =>
              /\ ElementsAfter(c) = Elements(Other(c))
              /\ ElementsAfter(Other(c)) = Elements(c)
              /\ heap' = heap
              /\ last.ret = "swapped" =>
                     column' = last.pre.column /\ heap' = last.pre.heap]_vars

\* Two swaps in a row between ColumnStrings holding different elements.
C9_Witness ==
    /\ last.ret = "swapped"
    /\ last.pre.ret = "swapped"
    /\ IsString("A") /\ IsString("B")
    /\ Size(column["A"], heap) = 2
    /\ Size(column["B"], heap) = 1
    /\ Elements("A") # Elements("B")

\* c.Append(src) by either class, src being a whole column.
AppendsColumn(c, src) == StringAppendColumn(c, src) \/ FixedAppendColumn(c, src)

\* C11: Append(column) with an argument of the other concrete kind (a
\* ColumnFixedString onto a ColumnString or the reverse) raises no error and
\* leaves everything as it was: the destination's Size(), elements and
\* members, and the heap, so no block or buffer is allocated.
C11_CrossKindAppendIsNoOp ==
    [][\A c \in Cols, src \in Cols :
          (column[c].type # column[src].type /\ AppendsColumn(c, src)) =>
              /\ last'.ret = "no-op"
              /\ pc' = pc
              /\ column' = column
              /\ heap' = heap
              /\ Size(column'[c], heap') = Size(column[c], heap)
              /\ ElementsAfter(c) = Elements(c)]_vars

\* A variable-width column holding two elements took a fixed-width column
\* holding one, to no effect.
C11_Witness ==
    /\ last.ret = "no-op"
    /\ IsString("A") /\ IsFixed("B")
    /\ Size(column["A"], heap) = 2
    /\ Size(column["B"], heap) = 1

\* The elements column c held when the running Append(column) was called.
ElementsAtEntry(c) == Contents(last.pre.column[c], last.pre.heap)
\* The allocations that hold the storage of column c.
Storage(c) == BlockIds(column[c]) \cup OwnedIds(column[c])

\* C12: when D.Append(S) with another ColumnString S returns, D holds the
\* elements it held at the call followed by those of S, in order, Size()
\* being the sum of the two; S is as it was; and the views D gained lie in
\* D's own blocks, not in the storage of S nor in the caller's memory.
C12_CrossAppendKeepsOrder ==
    [][(StringAppendColumnDone /\ pc.src # pc.dst) =>
          LET m == Len(ElementsAtEntry(pc.dst))
              k == Len(ElementsAtEntry(pc.src))
          IN /\ Elements(pc.dst) = ElementsAtEntry(pc.dst) \o ElementsAtEntry(pc.src)
             /\ Size(column[pc.dst], heap) = m + k
             /\ column[pc.src] = last.pre.column[pc.src]
             /\ Elements(pc.src) = ElementsAtEntry(pc.src)
             /\ \A i \in m + 1 .. m + k :
                    LET v == column[pc.dst].items_[i]
                    IN /\ v.buf \in BlockIds(column[pc.dst])
                       /\ v.buf \notin Storage(pc.src) \cup {CallerBuf}]_vars

\* The loop of A.Append(B) has run to its end: A, holding two different
\* elements, one of them in an owned string, has gained the one element of B.
C12_Witness ==
    /\ pc.state = "Append" /\ pc.dst = "A" /\ pc.src = "B"
    /\ pc.i = 1 /\ Size(column["B"], heap) = 1
    /\ Size(column["A"], heap) = 3
    /\ column["A"].append_data_ # << >>
    /\ Elements("A")[1] # Elements("A")[2]
    /\ Elements("A")[2] # Elements("A")[3]
    /\ Elements("A")[3] = Elements("B")[1]

\* The first `rows` payloads of a stream of length-prefixed strings.
RECURSIVE Payloads(_, _)
Payloads(stream, rows) ==
    IF rows = 0 THEN << >>
    ELSE LET len == DecodeFixed(SubSeq(stream, 1, UInt64Bytes))
         IN <<SubSeq(stream, UInt64Bytes + 1, UInt64Bytes + len)>>
            \o Payloads(SubSeq(stream, UInt64Bytes + len + 1, Len(stream)), rows - 1)
\* The allocations alive in heap h.
Live(h) == {i \in BufIds : h[i].live}

\* C13: a ColumnString::LoadBody(stream, rows) that returns true replaces
\* the contents, whatever the column held: Size() is rows, At(i) is the
\* i-th payload of the stream, every view lies in a block allocated by the
\* call (none in storage the column had, none in the caller's memory), and
\* value_size_estimation_ is as it was; with rows = 0 the column is emptied
\* and nothing is allocated.
C13_LoadReplacesContents ==
    [][\A src \in Cols, rows \in RowSet, trunc \in 0 .. MaxTrunc :
          (last'.ret = "true" /\ StringLoadBody("A", src, rows, trunc)) =>
              /\ Size(column'["A"], heap') = rows
              /\ ElementsAfter("A") = Payloads(Stream(src, trunc), rows)
              /\ \A i \in 1 .. rows :
                     LET v == column'["A"].items_[i]
                     IN /\ v.buf \in BlockIds(column'["A"])
                        /\ v.buf \notin Live(heap) \cup {CallerBuf}
              /\ column'["A"].value_size_estimation_
                     = column["A"].value_size_estimation_
              /\ rows = 0 =>
                     /\ column'["A"].items_ = << >>
                     /\ column'["A"].blocks_ = << >>
                     /\ Live(heap') \subseteq Live(heap)]_vars

\* A column holding an owned string and a borrowed one was loaded from what
\* it had saved: the two different elements now lie in the one block the
\* load allocated.
C13_Witness ==
    /\ last.ret = "true"
    /\ IsString("A")
    /\ Size(column["A"], heap) = 2
    /\ Elements("A")[1] # Elements("A")[2]
    /\ Len(column["A"].append_data_) = 1
    /\ Len(column["A"].blocks_) = 1
    /\ \A i \in 1 .. 2 : column["A"].items_[i].buf = column["A"].blocks_[1].data_

\* C14: a ColumnString::LoadBody that returns false, because a length or a
\* payload could not be read in full at whatever row, leaves the column as
\* the call found it: the same items_ and blocks_, hence the same Size() and
\* elements, and the same allocations; no partly loaded sequence shows.
C14_FailedLoadChangesNothing ==
    [][\A src \in Cols, rows \in RowSet, trunc \in 0 .. MaxTrunc :
          (last'.ret = "false" /\ StringLoadBody("A", src, rows, trunc)) =>
              /\ column'["A"].items_ = column["A"].items_
              /\ column'["A"].blocks_ = column["A"].blocks_
              /\ column' = column
              /\ heap' = heap
              /\ Size(column'["A"], heap') = Size(column["A"], heap)
              /\ ElementsAfter("A") = Elements("A")]_vars

\* A load has failed on a column that holds two elements, one in a block and
\* one in the caller's memory.
C14_Witness ==
    /\ last.ret = "false"
    /\ IsString("A")
    /\ Size(column["A"], heap) = 2
    /\ Len(column["A"].blocks_) = 1
    /\ column["A"].blocks_[1].size > 0
    /\ column["A"].items_[2].buf = CallerBuf
    /\ Elements("A")[1] # Elements("A")[2]

\* C15: Append(string_view s) on a ColumnString allocates a block exactly
\* when there is no block or the last block has less room than len(s); the
\* block's capacity is max(next_block_size_, len(s)) and next_block_size_
\* becomes max(4096, value_size_estimation_ * 32); otherwise the blocks and
\* next_block_size_ stay.  Either way the earlier blocks keep their arrays
\* and capacities, and the earlier elements their views and bytes.
C15_CopyAppendBlockPolicy ==
    [][\A str \in Strs :
          StringAppend("A", str) =>
              LET o == column["A"]
                  after == column'["A"]
                  n == Len(o.blocks_)
              IN /\ IF n = 0 \/ o.blocks_[n].capacity - o.blocks_[n].size < Len(str)
                    THEN /\ Len(after.blocks_) = n + 1
                         /\ after.blocks_[n + 1].capacity
                                = Max(o.next_block_size_, Len(str))
                         /\ after.next_block_size_
                                = Max(DEFAULT_BLOCK_SIZE, o.value_size_estimation_ * 32)
                    ELSE /\ Len(after.blocks_) = n
                         /\ after.next_block_size_ = o.next_block_size_
                 /\ \A i \in 1 .. n :
                        /\ after.blocks_[i].capacity = o.blocks_[i].capacity
                        /\ after.blocks_[i].data_ = o.blocks_[i].data_
                 /\ \A i \in 1 .. Len(o.items_) :
                        /\ after.items_[i] = o.items_[i]
                        /\ Deref(heap', after.items_[i]) = Deref(heap, o.items_[i])]_vars

\* C16: Reserve(n) on a ColumnString whose last block has room for at least
\* one estimated element allocates no block and sets next_block_size_ to
\* max(4096, r * value_size_estimation_), r being the number of the n
\* elements that do not fit into that room (n less floor(available /
\* estimate), 0 when all fit); so next_block_size_ is at most
\* max(4096, n * value_size_estimation_) and nothing wraps around.
C16_ReserveWidensNextBlock ==
    [][\A n \in ReserveSet :
          (/\ last'.ret = "ok"
           /\ StringReserve("A", n)
           /\ column["A"].blocks_ # << >>
           /\ GetAvailable(Last(column["A"].blocks_))
                  >= column["A"].value_size_estimation_) =>
              LET o == column["A"]
                  est == o.value_size_estimation_
                  fit == IF est = 0 THEN 0
                         ELSE GetAvailable(Last(o.blocks_)) \div est
                  r == IF n > fit THEN n - fit ELSE 0
              IN /\ column'["A"].blocks_ = o.blocks_
                 /\ heap' = heap
                 /\ column'["A"].next_block_size_ = Max(DEFAULT_BLOCK_SIZE, r * est)
                 /\ column'["A"].next_block_size_ <= Max(DEFAULT_BLOCK_SIZE, n * est)]_vars

\* The indexes At is called with: those of the elements, the first ones past
\* the end, and two so large that the index times the element size wraps.
Indexes == (0 .. MaxJoined + 1) \cup {HugeCount, SizeMod - 1}

\* The n-th element of column c, read from where the column keeps it.
Stored(c, n) ==
    IF IsString(c) THEN Deref(heap, column[c].items_[n + 1])
    ELSE SubSeq(column[c].data_, n * column[c].string_size_ + 1,
                (n + 1) * column[c].string_size_)

\* C17: in every reachable state, for either kind of column, At(n) (and
\* GetItem(n), which calls it) fails with a bounds error for every
\* n >= Size(), also when n times the element size wraps around, and
\* returns the n-th element for every n < Size(), of exactly string_size_
\* bytes for the fixed-width kind.
C17_AtIsBoundsChecked ==
    \A c \in Cols, n \in Indexes :
        IF n >= Size(column[c], heap)
        THEN At(column[c], heap, n) = "out_of_range"
        ELSE /\ At(column[c], heap, n) = Stored(c, n)
             /\ IsFixed(c) => Len(At(column[c], heap, n)) = column[c].string_size_

\* The summed length of the strings of a list.
RECURSIVE TotalBytes(_)
TotalBytes(data) ==
    IF data = << >> THEN 0 ELSE Len(Head(data)) + TotalBytes(Tail(data))
\* The least integer that is at least total / count.
CeilQuotient(total, count) ==
    CHOOSE q \in 0 .. total : q * count >= total /\ (q = 0 \/ (q - 1) * count < total)

\* C18: a ColumnString built from a complete list of strings, by copying
\* the list or by taking ownership of it, has value_size_estimation_ =
\* ceil(total_bytes / count), and 1 where that is 0 (an empty list, or
\* empty strings only).
C18_EstimateIsCeilOfAverage ==
    last.ret = "constructed from list" =>
        LET data == Elements("A")
            total == TotalBytes(data)
            count == Len(data)
            quotient == IF count = 0 THEN 0 ELSE CeilQuotient(total, count)
        IN column["A"].value_size_estimation_
               = IF quotient = 0 THEN 1 ELSE quotient

\* A column has taken ownership of a list of two strings of 1 and 2 bytes:
\* the estimate is 2, the quotient 3 / 2 rounded up.
C18_Witness ==
    /\ last.ret = "constructed from list"
    /\ Len(column["A"].append_data_) = 2
    /\ Elements("A") = <<<<1>>, <<0, 1>>>>
    /\ column["A"].value_size_estimation_ = 2

\* C19: Append(column) of a ColumnString holding k >= 1 elements onto
\* itself ends after k passes of its loop: once the k elements present at
\* the call have been appended the loop's test fails, Size() is 2k and the
\* elements are the original ones twice over; all the while the chosen
\* block has taken no more than the bytes summed at the call.
C19_SelfAppendTerminates ==
    (pc.state = "Append" /\ pc.src = pc.dst) =>
        LET o == column[pc.dst]
            k == Len(ElementsAtEntry(pc.dst))
            total == TotalBytes(ElementsAtEntry(pc.dst))
            written == SumRange(ItemSizes(o), k + 1, Len(o.items_))
        IN /\ pc.i <= k
           /\ written <= total
           /\ (k >= 1 /\ pc.i = k) =>
                  /\ ~(pc.i < ColumnString_Size(column[pc.src]))
                  /\ Size(o, heap) = 2 * k
                  /\ Elements(pc.dst)
                         = ElementsAtEntry(pc.dst) \o ElementsAtEntry(pc.dst)

\* C20: ColumnFixedString::Append(column) with a ColumnFixedString of
\* another element size raises no error and leaves the destination as it
\* was; with one of the same element size it appends the source's elements
\* in order: Size() grows by the source's Size(), the elements are the
\* destination's followed by the source's, none cut or padded anew.
C20_FixedAppendColumn ==
    [][\A c \in Cols, src \in Cols :
          (IsFixed(src) /\ FixedAppendColumn(c, src)) =>
              IF column[c].string_size_ # column[src].string_size_
              THEN /\ last'.ret = "no-op"
                   /\ column' = column
              ELSE /\ last'.ret = "ok"
                   /\ Size(column'[c], heap')
                          = Size(column[c], heap) + Size(column[src], heap)
                   /\ ElementsAfter(c) = Elements(c) \o Elements(src)
                   /\ column'[c].string_size_ = column[c].string_size_
                   /\ src # c => column'[src] = column[src]]_vars

====
